---- MODULE Spec2Model ----
(***************************************************************************)
(* Zampto auto-renewal script (src/main.py): ZamptoLogin.run, its helpers  *)
(* and main(), as a state machine.                                         *)
(*                                                                         *)
(* Strings are sequences of lexical tokens: "a: error" is                  *)
(* <<"a", ":", " ", "error">>, and Python's substring test `x in s` is the *)
(* contiguous-subsequence test Contains below.  Page content is a set of   *)
(* phrases; `needle in content` is decided by the needles each phrase      *)
(* contains.  The browser and the web site are the environment: every      *)
(* navigation loads a page drawn from Pages, and every browser operation   *)
(* may raise.                                                              *)
(***************************************************************************)
EXTENDS Integers, Sequences, FiniteSets, TLC

\* ---------------------------------------------------------------- bounds
\* Longest ZAMPTO_SERVER_URLS list (comma separated items) explored.
MaxServers == 2
\* Deepest is_server_page_loaded -> handle_accounts_redirect_from_server ->
\* is_server_page_loaded recursion explored; one level deeper the Python
\* call raises (RecursionError), which the innermost handler turns to False.
MaxDepth == 2

\* ---------------------------------------------------------------- strings
None == "None"

RECURSIVE Contains(_, _)
\* Python `sub in s` on token strings.
Contains(s, sub) ==
    IF Len(sub) > Len(s) THEN FALSE
    ELSE IF SubSeq(s, 1, Len(sub)) = sub THEN TRUE
    ELSE IF s = <<>> THEN FALSE
    ELSE Contains(Tail(s), sub)

RECURSIVE Strip(_)
\* Python str.strip(): blanks removed at both ends.
Strip(s) ==
    IF s = <<>> THEN s
    ELSE IF Head(s) = " " THEN Strip(Tail(s))
    ELSE IF s[Len(s)] = " " THEN Strip(SubSeq(s, 1, Len(s) - 1))
    ELSE s

\* Index of the last / first occurrence of token t in s, 0 when absent.
LastIndex(s, t) ==
    IF \E k \in 1..Len(s) : s[k] = t
    THEN CHOOSE k \in 1..Len(s) : s[k] = t /\ \A j \in (k+1)..Len(s) : s[j] /= t
    ELSE 0

FirstIndex(s, t) ==
    IF \E k \in 1..Len(s) : s[k] = t
    THEN CHOOSE k \in 1..Len(s) : s[k] = t /\ \A j \in 1..(k-1) : s[j] /= t
    ELSE 0

\* ---------------------------------------------------------------- configuration
\* Server URLs that may appear in ZAMPTO_SERVER_URLS.
UrlA     == <<"https://h/server", "?", "id=", "a">>
UrlNoId  == <<"https://h/server/7">>
UrlErr   == <<"https://h/server", "?", "id=", "error">>
UrlPad   == <<" ", "https://h/server", "?", "id=", "a", " ">>
Blank    == <<" ">>

ServerUrlItems == {UrlA, UrlNoId, UrlErr, UrlPad, Blank}

RawLists == UNION {[1..n -> ServerUrlItems] : n \in 0..MaxServers}

\* __init__: server_list = [url.strip() for url in split(',') if url.strip()]
ParseServerList(raw) ==
    LET keep(item) == Strip(item) /= <<>>
        kept == SelectSeq(raw, keep)
    IN  [k \in 1..Len(kept) |-> Strip(kept[k])]

Emails    == {"", "user@example.org"}
Passwords == {"", "secret"}

\* Faulty variant of has_email_auth: the password is not looked at.
HasEmailOnly(e, p) == e /= ""

\* has_email_auth: bool(self.email and self.password)
HasEmailAuth(e, p) == e /= "" /\ p /= ""

\* renew_server: server_id = server_url.split('id=')[-1] if 'id=' in server_url else "unknown"
ServerId(url) ==
    IF LastIndex(url, "id=") > 0
    THEN SubSeq(url, LastIndex(url, "id=") + 1, Len(url))
    ELSE <<"unknown">>

\* Faulty variant of the renewal URL: "?renew=true" appended whatever the URL.
RenewUrlAlwaysQuery(url) == url \o <<"?", "renew=true">>

\* renew_server: renew_url = server_url + ("&renew=true" if '?' in server_url else "?renew=true")
RenewUrl(url) ==
    IF FirstIndex(url, "?") > 0
    THEN url \o <<"&", "renew=true">>
    ELSE url \o <<"?", "renew=true">>

\* f"{server_id}: {status}"
Fmt(server_id, status) == server_id \o <<":", " ", status>>

ErrNoAuth     == <<"error", ":", " ", "no_auth">>
ErrNoServers  == <<"error", ":", " ", "no_servers">>
ErrRuntime    == <<"error", ":", " ", "runtime">>
LoginFailed   == <<"login_failed">>

Repeat(x, n) == [k \in 1..n |-> x]

\* ---------------------------------------------------------------- pages
\* Phrases that occur in page content, and for each the needles the code
\* searches for that it contains (content is lower-cased before searching).
NeedlesOf(phrase) ==
    CASE phrase = "dashboard"        -> {"dashboard"}
      [] phrase = "server details"   -> {"server", "server details"}
      [] phrase = "renew server"     -> {"server", "renew server"}
      [] phrase = "active until"     -> {"active"}
      [] phrase = "expires on"       -> {}
      [] phrase = "expired"          -> {"expired"}
      [] phrase = "server has been renewed successfully"
                                     -> {"server", "server has been renewed successfully",
                                         "renewed successfully"}
      [] phrase = "already renewed"  -> {"already renewed"}
      [] phrase = "renewal failed"   -> {"failed"}
      [] phrase = "error"            -> {"error"}
      [] phrase = "login"            -> {"login"}
      [] phrase = "quick login"      -> {"quick login", "login"}
      [] phrase = "email"            -> {"email"}
      [] phrase = "password"         -> {"password"}
      [] phrase = "checking your browser" -> {"checking"}
      [] phrase = "user@example.org" -> {"user@example.org"}
      [] OTHER                       -> {}

\* Python `needle in content.lower()`
Has(page, needle) == \E ph \in page.phrases : needle \in NeedlesOf(ph)

HasAny(page, needles) == \E n \in needles : Has(page, n)

\* A page: features of page.url, the phrases of page.content(), and the text
\* each date pattern of extract_renewal_info captures (pattern -> text).
Page(url, phrases, dates) == [url |-> url, phrases |-> phrases, dates |-> dates]

NoDates == <<>>
ActiveUntil(d) == <<<<"active until", d>>>>
ExpiresOn(d)   == <<<<"expires on", d>>>>

PgServer1   == Page({"hosting"}, {"server details", "active until"}, ActiveUntil("jan 5"))
PgServer2   == Page({"hosting"}, {"server details", "active until"}, ActiveUntil("jan 9"))
PgServerNoDate == Page({"hosting"}, {"renew server"}, NoDates)
PgExpired   == Page({"hosting"}, {"expired", "expires on"}, ExpiresOn("jan 5"))
PgSuccess   == Page({"hosting"}, {"server has been renewed successfully", "active until"},
                    ActiveUntil("jan 9"))
PgAlready   == Page({"hosting"}, {"already renewed", "active until"}, ActiveUntil("jan 5"))
PgSuccessAlready == Page({"hosting"}, {"server has been renewed successfully", "already renewed"},
                    NoDates)
PgErrorDate == Page({"hosting"}, {"error", "active until"}, ActiveUntil("jan 5"))
PgFailed    == Page({"hosting"}, {"renewal failed"}, NoDates)
PgBlank     == Page({}, {}, NoDates)
PgDashboard == Page({"hosting"}, {"dashboard"}, NoDates)
PgAuth      == Page({"hosting"}, {"login"}, NoDates)
PgLoginForm == Page({"accounts"}, {"login", "email", "password"}, NoDates)
PgQuick     == Page({"accounts"}, {"quick login", "user@example.org"}, NoDates)
PgValidation == Page({"accounts", "validation"}, {"email"}, NoDates)
PgValidationOnly == Page({"validation"}, {}, NoDates)
PgCloudflare == Page({"accounts"}, {"checking your browser"}, NoDates)

Pages == {PgServer1, PgServer2, PgServerNoDate, PgExpired, PgSuccess, PgAlready,
          PgSuccessAlready, PgErrorDate, PgFailed, PgBlank, PgDashboard, PgAuth,
          PgLoginForm, PgQuick, PgValidation, PgValidationOnly, PgCloudflare}

\* ---------------------------------------------------------------- extract_renewal_info
DatePatterns == <<"active until", "expires on", "renewal date", "valid until">>

\* The text captured by pattern pat on the page, None when it does not match.
Captured(page, pat) ==
    IF \E k \in 1..Len(page.dates) : page.dates[k][1] = pat
    THEN page.dates[CHOOSE k \in 1..Len(page.dates) : page.dates[k][1] = pat][2]
    ELSE None

\* for pattern in patterns: match = re.search(...); first match wins
FirstDate(page) ==
    LET hits == {k \in 1..Len(DatePatterns) : Captured(page, DatePatterns[k]) /= None}
    IN  IF hits = {} THEN None
        ELSE Captured(page, DatePatterns[CHOOSE k \in hits : \A j \in hits : k <= j])

ServerStatus(page) ==
    IF Has(page, "active") THEN "active"
    ELSE IF Has(page, "expired") THEN "expired"
    ELSE IF Has(page, "suspended") THEN "suspended"
    ELSE "unknown"

\* The returned dict: 'renewal_date' is set only when a pattern matched,
\* 'status' always.
ExtractRenewalInfo(page) ==
    IF FirstDate(page) = None
    THEN [k \in {"status"} |-> ServerStatus(page)]
    ELSE [k \in {"renewal_date", "status"} |->
            IF k = "status" THEN ServerStatus(page) ELSE FirstDate(page)]

\* dict.get(key): None when the key is absent
Get(info, key) == IF key \in DOMAIN info THEN info[key] ELSE None

\* truth value of a dict
Truthy(info) == DOMAIN info /= {}

EmptyInfo == <<>>

\* ---------------------------------------------------------------- page checks
\* check_login_status(page).  raises: a browser call in its body raised;
\* hvf: what handle_validation_failure returned (it never raises).
CheckLoginStatus(pg, raises, hvf) ==
    IF raises THEN FALSE
    ELSE IF "hosting" \in pg.url THEN HasAny(pg, {"welcome back", "dashboard", "server"})
    ELSE IF "accounts" \in pg.url THEN Has(pg, "quick login")
    ELSE IF "validation" \in pg.url THEN hvf
    ELSE FALSE

\* check_login_status reaches handle_validation_failure, which may navigate.
ReachesValidation(pg, raises) ==
    ~raises /\ "hosting" \notin pg.url /\ "accounts" \notin pg.url /\ "validation" \in pg.url

\* Outcome of one selector probe: page.locator(selector).count() > 0
ProbeOutcomes == {"found", "absent", "raise"}

\* for selector in selectors: try: if count() > 0: field = ...; break / except: continue
Found(probes) == \E k \in 1..Len(probes) : probes[k] = "found"

\* Some probe raised before the loop ended (at the first "found", or at the end).
ProbeRaised(probes) ==
    \E k \in 1..Len(probes) : probes[k] = "raise" /\ \A j \in 1..(k-1) : probes[j] /= "found"

EmailSelectors    == 2
PasswordSelectors == 2
SubmitSelectors   == 1

\* is_server_page_loaded(page), up to the call of handle_accounts_redirect_from_server:
\* "true", "false", or "accounts" when that call decides.
ServerPageVerdict(pg, raises) ==
    IF raises THEN "false"
    ELSE IF HasAny(pg, {"active", "renew server", "server details", "management options"})
         THEN "true"
    ELSE IF "validation" \in pg.url THEN "false"
    ELSE IF "accounts" \in pg.url THEN "accounts"
    ELSE "false"

\* handle_accounts_redirect_from_server: quick-login screen showing the account
QuickLoginFor(pg, mail) == Has(pg, "quick login") /\ Has(pg, mail)

\* renew_server, lines 632-658: the status read off the page after the renewal
\* request; "check_page" when is_server_page_loaded decides.
Classify(pg, original, renewed) ==
    IF HasAny(pg, {"server has been renewed successfully", "renewed successfully"})
    THEN "success"
    ELSE IF HasAny(pg, {"already renewed", "no need to renew"})
    THEN "already_renewed"
    ELSE IF Truthy(renewed) /\ Truthy(original)
            /\ Get(renewed, "renewal_date") /= Get(original, "renewal_date")
    THEN "success"
    ELSE IF Has(pg, "error") \/ Has(pg, "failed")
    THEN "error"
    ELSE "check_page"

\* ---------------------------------------------------------------- main(): exit status
\* Faulty variant of the exit test: "error:" is not looked for.
ExitStatusLoginOnly(res) ==
    IF \E k \in 1..Len(res) : Contains(res[k], <<"login_failed">>) THEN 1 ELSE 0

\* any("login_failed" in result or "error:" in result for result in results)
ExitStatus(res) ==
    IF \E k \in 1..Len(res) :
          Contains(res[k], <<"login_failed">>) \/ Contains(res[k], <<"error", ":">>)
    THEN 1 ELSE 0

\* ---------------------------------------------------------------- write_readme_file
KnownStatuses == {"success", "already_renewed", "no_button_found", "no_renewal_needed",
                  "login_failed", "error", "unknown", "redirect_failed",
                  "validation_failed", "unknown_redirect", "click_failed",
                  "login_required", "page_load_failed"}

\* status_messages.get(status, f"unknown status ({status})")
StatusMessage(status) ==
    IF Len(status) = 1 /\ status[1] \in KnownStatuses
    THEN <<"msg", status[1]>>
    ELSE <<"unknown status">> \o status

\* One line of the results section.
ReadmeLine(result) ==
    IF FirstIndex(result, ":") > 0
    THEN LET c == FirstIndex(result, ":")
         IN  [server |-> SubSeq(result, 1, c - 1),
              msg    |-> StatusMessage(Strip(SubSeq(result, c + 1, Len(result))))]
    ELSE [server |-> <<>>, msg |-> StatusMessage(result)]

\* Title, blank, timestamp, blank, section heading, blank.
ReadmeHeader == <<"# title", "", "timestamp", "", "## results", "">>

ReadmeContent(res) == [header |-> ReadmeHeader, lines |-> [k \in 1..Len(res) |-> ReadmeLine(res[k])]]

NoFile == [header |-> <<>>, lines |-> <<>>]

\* ---------------------------------------------------------------- perform_login
\* Faulty variant of perform_login: an exception while filling the form does
\* not end the call.
PerformLoginUnguarded(pe, pp, ps, raises, chk) == Found(pe) /\ Found(pp) /\ Found(ps) /\ chk

\* perform_login(page).  pe, pp, ps: the probes of the three selector loops
\* (a loop runs only when the ones before it found their field); raises: a
\* click, fill or key press raised; chk: what check_login_status returned.
PerformLogin(pe, pp, ps, raises, chk) ==
    IF ~Found(pe) THEN FALSE
    ELSE IF ~Found(pp) THEN FALSE
    ELSE IF ~Found(ps) THEN FALSE
    ELSE IF raises THEN FALSE
    ELSE chk

\* The exceptions raised inside that call: "inner" is caught by a selector
\* loop, "outer" by the handler of perform_login.
PerformLoginExc(pe, pp, ps, raises) ==
    (IF \/ ProbeRaised(pe)
        \/ Found(pe) /\ ProbeRaised(pp)
        \/ Found(pe) /\ Found(pp) /\ ProbeRaised(ps)
     THEN {"inner"} ELSE {})
    \cup (IF Found(pe) /\ Found(pp) /\ Found(ps) /\ raises THEN {"outer"} ELSE {})

\* Every way a call of check_login_status can go: its result, whether a
\* browser call raised inside it, and whether page.url is on accounts.zampto.net.
CheckRuns ==
    { [result |-> CheckLoginStatus(pg, r, h), raised |-> r, acc |-> "accounts" \in pg.url] :
      pg \in Pages, r \in BOOLEAN, h \in BOOLEAN }

\* Every way a call of perform_login can go: its result and the exceptions
\* raised inside it ("nested": caught inside check_login_status).
PerformLoginRuns ==
    { [result |-> PerformLogin(pe, pp, ps, raises, chk.result),
       exc |-> PerformLoginExc(pe, pp, ps, raises)
               \cup (IF Found(pe) /\ Found(pp) /\ Found(ps) /\ ~raises /\ chk.raised
                     THEN {"nested"} ELSE {})] :
      pe \in [1..EmailSelectors -> ProbeOutcomes],
      pp \in [1..PasswordSelectors -> ProbeOutcomes],
      ps \in [1..SubmitSelectors -> ProbeOutcomes],
      raises \in BOOLEAN, chk \in CheckRuns }

\* ---------------------------------------------------------------- state
VARIABLES
    email, password,    \* ZAMPTO_EMAIL, ZAMPTO_PASSWORD
    server_list,        \* self.server_list, parsed from ZAMPTO_SERVER_URLS
    entry,              \* "main": the script is run; "run": run() is called directly
    pc,                 \* position of the single thread of control
    browsers,           \* number of browsers launched
    browser_open,       \* a browser is launched and not closed
    login_success,      \* login_with_email's result: "unset", "true", "false"
    idx,                \* 1-based position of the for loop over server_list
    results,            \* run()'s local list
    returned,           \* the list run() returned
    raised_in_run,      \* an exception reached the except clause of run()
    run_calls,          \* number of times main() called run()
    calls,              \* renew_server calls and returns, in order
    original_info,      \* renew_server's local
    depth,              \* nesting of is_server_page_loaded
    cur,                \* what the renew_server call in progress, or just returned,
                        \* requested and saw
    step,               \* during login: the helper step that returned last
    own_exc,            \* during login: exceptions raised in login_with_email's own body
    readme,             \* README.md
    write_calls,        \* number of write_readme_file calls
    write_error,        \* where write_readme_file caught an exception, "none" if nowhere
    exit_status         \* sys.exit status, -1 while running

vars == <<email, password, server_list, entry, pc, browsers, browser_open, login_success,
          idx, results, returned, raised_in_run, run_calls, calls, original_info, depth, cur,
          step, own_exc, readme, write_calls, write_error, exit_status>>

NoCall == [server |-> 0, opened |-> <<>>, loaded |-> "none", renew_url |-> <<>>,
           original |-> EmptyInfo, renewed |-> PgBlank, classified |-> "none",
           recheck |-> "none", exc |-> {}, status |-> "none"]

Step(name, exc, result) == [name |-> name, exc |-> exc, result |-> result]

NoStep == Step("none", {}, FALSE)

Init ==
    /\ email \in Emails
    /\ password \in Passwords
    /\ server_list \in {ParseServerList(raw) : raw \in RawLists}
    /\ entry \in {"main", "run"}
    /\ pc = IF entry = "main" THEN "main" ELSE "run"
    /\ browsers = 0
    /\ browser_open = FALSE
    /\ login_success = "unset"
    /\ idx = 1
    /\ results = <<>>
    /\ returned = <<>>
    /\ raised_in_run = FALSE
    /\ run_calls = 0
    /\ calls = <<>>
    /\ original_info = EmptyInfo
    /\ depth = 0
    /\ cur = NoCall
    /\ step = NoStep
    /\ own_exc = {}
    /\ readme = NoFile
    /\ write_calls = 0
    /\ write_error = "none"
    /\ exit_status = -1

Config == <<email, password, server_list, entry>>
MainVars == <<readme, write_calls, write_error, exit_status, run_calls>>
RunResult == <<returned, raised_in_run>>
RenewVars == <<idx, results, calls, original_info, depth, cur>>
BrowserVars == <<browsers, browser_open>>
LoginVars == <<login_success, step, own_exc>>

\* ---------------------------------------------------------------- main()
\* if not login.has_email_auth(): sys.exit(1)
MainNoAuth ==
    /\ pc = "main"
    /\ ~HasEmailAuth(email, password)
    /\ exit_status' = 1
    /\ pc' = "exited"
    /\ UNCHANGED <<Config, BrowserVars, LoginVars, RenewVars, RunResult, run_calls,
                   readme, write_calls, write_error>>

\* if not login.server_list: sys.exit(1)
MainNoServers ==
    /\ pc = "main"
    /\ HasEmailAuth(email, password)
    /\ server_list = <<>>
    /\ exit_status' = 1
    /\ pc' = "exited"
    /\ UNCHANGED <<Config, BrowserVars, LoginVars, RenewVars, RunResult, run_calls,
                   readme, write_calls, write_error>>

\* results = login.run()
MainCallRun ==
    /\ pc = "main"
    /\ HasEmailAuth(email, password)
    /\ server_list /= <<>>
    /\ run_calls' = run_calls + 1
    /\ pc' = "run"
    /\ UNCHANGED <<Config, BrowserVars, LoginVars, RenewVars, RunResult, readme,
                   write_calls, write_error, exit_status>>

\* Faulty variant of write_readme_file: each result line replaces the one before.
WriteOnlyLastResult(res, fail) ==
    /\ write_calls' = write_calls + 1
    /\ write_error' = fail
    /\ readme' = IF fail = "none" THEN ReadmeContent(<<res[Len(res)]>>) ELSE NoFile

\* login.write_readme_file(results): fail is where the write raised, if it did
\* ("open": README.md untouched; "write": README.md truncated).
WriteReadmeFile(res, fail) ==
    /\ write_calls' = write_calls + 1
    /\ write_error' = fail
    /\ readme' = CASE fail = "none"  -> ReadmeContent(res)
                   [] fail = "open"  -> readme
                   [] fail = "write" -> NoFile

MainWrite ==
    /\ pc = "returned"
    /\ entry = "main"
    /\ \E fail \in {"none", "open", "write"} : WriteReadmeFile(returned, fail)
    /\ pc' = "written"
    /\ UNCHANGED <<Config, BrowserVars, LoginVars, RenewVars, RunResult, run_calls,
                   exit_status>>

\* sys.exit(1) if any(...) else sys.exit(0)
MainExit ==
    /\ pc = "written"
    /\ exit_status' = ExitStatus(returned)
    /\ pc' = "exited"
    /\ UNCHANGED <<Config, BrowserVars, LoginVars, RenewVars, RunResult, run_calls,
                   readme, write_calls, write_error>>

\* ---------------------------------------------------------------- run()
\* if not self.has_email_auth(): return ["error: no_auth"]
RunNoAuth ==
    /\ pc = "run"
    /\ ~HasEmailAuth(email, password)
    /\ returned' = <<ErrNoAuth>>
    /\ pc' = "returned"
    /\ UNCHANGED <<raised_in_run, Config, BrowserVars, LoginVars, RenewVars, MainVars>>

\* if not self.server_list: return ["error: no_servers"]
RunNoServers ==
    /\ pc = "run"
    /\ HasEmailAuth(email, password)
    /\ server_list = <<>>
    /\ returned' = <<ErrNoServers>>
    /\ pc' = "returned"
    /\ UNCHANGED <<raised_in_run, Config, BrowserVars, LoginVars, RenewVars, MainVars>>

\* Faulty variant of the except clause: a single "error: runtime" is returned.
RuntimeErrorOneEntry ==
    /\ raised_in_run' = TRUE
    /\ returned' = <<ErrRuntime>>
    /\ pc' = "returned"

\* except Exception: return ["error: runtime"] * len(self.server_list)
RuntimeError ==
    /\ raised_in_run' = TRUE
    /\ returned' = Repeat(ErrRuntime, Len(server_list))
    /\ pc' = "returned"

\* with sync_playwright() as p: browser = p.chromium.launch(...); new_context;
\* add_init_script; new_page; set_default_timeout.  Any of them may raise,
\* before or after the browser is launched.
RunLaunch ==
    /\ pc = "run"
    /\ HasEmailAuth(email, password)
    /\ server_list /= <<>>
    /\ \E launched \in BOOLEAN, raises \in BOOLEAN :
          /\ launched \/ raises
          /\ browsers' = IF launched THEN browsers + 1 ELSE browsers
          /\ browser_open' = launched
          /\ IF raises
             THEN RuntimeError
             ELSE /\ pc' = "login_goto"
                  /\ UNCHANGED RunResult
    /\ UNCHANGED <<Config, LoginVars, RenewVars, MainVars>>

\* ---------------------------------------------------------------- login_with_email
LoginSelectors == 4

Exc(raised, kind) == IF raised THEN {kind} ELSE {}

\* login_with_email returns r
LoginReturn(r) ==
    /\ login_success' = IF r THEN "true" ELSE "false"
    /\ pc' = "loop"

\* page.goto(self.auth_url)
LoginGoto ==
    /\ pc = "login_goto"
    /\ \E raises \in BOOLEAN :
          IF raises
          THEN /\ LoginReturn(FALSE)
               /\ own_exc' = own_exc \cup {"outer"}
          ELSE /\ pc' = "login_check"
               /\ UNCHANGED <<login_success, own_exc>>
    /\ UNCHANGED <<Config, BrowserVars, RenewVars, MainVars, RunResult, step>>

\* if self.check_login_status(page): return True
LoginCheck ==
    /\ pc = "login_check"
    /\ \E pg \in Pages, raises \in BOOLEAN, hvf \in BOOLEAN :
          LET r == CheckLoginStatus(pg, raises, hvf)
          IN  /\ step' = Step("check_login_status", Exc(raises, "outer"), r)
              /\ IF r THEN LoginReturn(TRUE)
                      ELSE pc' = "login_button" /\ UNCHANGED login_success
    /\ UNCHANGED <<Config, BrowserVars, RenewVars, MainVars, RunResult, own_exc>>

\* The login button is looked up with four selectors ("found": present and
\* visible), then clicked inside page.expect_navigation.
LoginButton ==
    /\ pc = "login_button"
    /\ \E probes \in [1..LoginSelectors -> ProbeOutcomes] :
          IF ~Found(probes)
          THEN /\ LoginReturn(FALSE)
               /\ own_exc' = own_exc \cup Exc(ProbeRaised(probes), "inner")
          ELSE \E raises \in BOOLEAN :
                 /\ own_exc' = own_exc \cup Exc(ProbeRaised(probes), "inner")
                                       \cup Exc(raises, "outer")
                 /\ IF raises
                    THEN LoginReturn(FALSE)
                    ELSE pc' = "login_cf" /\ UNCHANGED login_success
    /\ UNCHANGED <<Config, BrowserVars, RenewVars, MainVars, RunResult, step>>

\* handle_cloudflare(page): pg is the page it finds, pgAfter the page at the
\* poll that ends the wait
HandleCloudflare(pg, raises, pgAfter) ==
    IF raises THEN FALSE
    ELSE IF HasAny(pg, {"cloudflare", "verifying", "checking"})
         THEN HasAny(pgAfter, {"email", "username", "password"})
    ELSE TRUE

\* if not self.handle_cloudflare(page): return False
LoginCloudflare ==
    /\ pc = "login_cf"
    /\ \E pg \in Pages, raises \in BOOLEAN :
       \E pgAfter \in (IF ~raises /\ HasAny(pg, {"cloudflare", "verifying", "checking"})
                       THEN Pages ELSE {pg}) :
          LET r == HandleCloudflare(pg, raises, pgAfter)
          IN  /\ step' = Step("handle_cloudflare", Exc(raises, "outer"), r)
              /\ IF r THEN pc' = "login_perform" /\ UNCHANGED login_success
                      ELSE LoginReturn(FALSE)
    /\ UNCHANGED <<Config, BrowserVars, RenewVars, MainVars, RunResult, own_exc>>

\* login_success = self.perform_login(page); if login_success: return True;
\* if "accounts.zampto.net" in page.url: (navigate) ; return False
LoginPerform ==
    /\ pc = "login_perform"
    /\ \E run \in PerformLoginRuns, onAccounts \in BOOLEAN :
          /\ step' = Step("perform_login", run.exc, run.result)
          /\ IF run.result THEN LoginReturn(TRUE)
             ELSE IF onAccounts
                  THEN pc' = "login_nav" /\ UNCHANGED login_success
             ELSE LoginReturn(FALSE)
    /\ UNCHANGED <<Config, BrowserVars, RenewVars, MainVars, RunResult, own_exc>>

\* navigate_to_hosting_from_accounts.  g1, g2: page.goto raised; c1, c2: what
\* check_login_status returned; acc: "accounts.zampto.net" in page.url after
\* the first check.
NavigateToHosting(g1, c1, acc, g2, c2) ==
    IF g1 THEN FALSE
    ELSE IF c1 THEN TRUE
    ELSE IF acc THEN (~g2 /\ c2)
    ELSE FALSE

\* Every way a call of navigate_to_hosting_from_accounts can go: its result
\* and the exceptions raised inside it ("outer": caught by its own handler,
\* "nested": caught inside check_login_status).
NavigateRuns ==
    { LET second == ~g1 /\ ~k1.result /\ k1.acc
      IN  [result |-> NavigateToHosting(g1, k1.result, k1.acc, g2, k2.result),
           exc |-> (IF g1 \/ (second /\ g2) THEN {"outer"} ELSE {})
                   \cup (IF (~g1 /\ k1.raised) \/ (second /\ ~g2 /\ k2.raised)
                         THEN {"nested"} ELSE {})] :
      g1 \in BOOLEAN, k1 \in CheckRuns, g2 \in BOOLEAN, k2 \in CheckRuns }

\* return self.navigate_to_hosting_from_accounts(page)
LoginNavigate ==
    /\ pc = "login_nav"
    /\ \E run \in NavigateRuns :
          /\ step' = Step("navigate_to_hosting_from_accounts", run.exc, run.result)
          /\ LoginReturn(run.result)
    /\ UNCHANGED <<Config, BrowserVars, RenewVars, MainVars, RunResult, own_exc>>

\* ---------------------------------------------------------------- renew_server
\* Faulty variant of the loop body: the result is put in front of the list.
RenewReturnPrepend(status, c, cs) ==
    /\ results' = <<Fmt(ServerId(server_list[idx]), status)>> \o results
    /\ calls' = Append(cs, <<"ret", idx>>)
    /\ cur' = [c EXCEPT !.status = status]
    /\ original_info' = EmptyInfo
    /\ depth' = 0
    /\ idx' = idx + 1
    /\ pc' = "loop"

\* return f"{server_id}: {status}" from the call for server_list[idx]; c is
\* the record of the call and cs the call log so far.
RenewReturn(status, c, cs) ==
    /\ results' = Append(results, Fmt(ServerId(server_list[idx]), status))
    /\ calls' = Append(cs, <<"ret", idx>>)
    /\ cur' = [c EXCEPT !.status = status]
    /\ original_info' = EmptyInfo
    /\ depth' = 0
    /\ idx' = idx + 1
    /\ pc' = "loop"

\* for server_url in self.server_list: result = self.renew_server(page, server_url)
\* up to page.goto(server_url, wait_until="networkidle")
RenewStart ==
    /\ pc = "loop"
    /\ login_success = "true"
    /\ idx <= Len(server_list)
    /\ step' = NoStep
    /\ own_exc' = {}
    /\ LET c  == [NoCall EXCEPT !.server = idx, !.opened = server_list[idx]]
           cs == Append(calls, <<"call", idx>>)
       IN  \E raises \in BOOLEAN :
              IF raises
              THEN RenewReturn("error", [c EXCEPT !.exc = {"own"}], cs)
              ELSE /\ cur' = c
                   /\ calls' = cs
                   /\ pc' = "check_page"
                   /\ UNCHANGED <<idx, results, original_info, depth>>
    /\ UNCHANGED <<Config, BrowserVars, login_success, MainVars, RunResult>>

\* Faulty variant of renew_server: the verdict on the original page is logged
\* but the renewal goes ahead whatever it is.
PageVerdictIgnored(b, c) ==
    IF c.classified = "none"
    THEN /\ cur' = [c EXCEPT !.loaded = IF b THEN "true" ELSE "false"]
         /\ depth' = 0
         /\ pc' = "renew"
         /\ UNCHANGED <<idx, results, calls, original_info>>
    ELSE IF b THEN RenewReturn("unknown", [c EXCEPT !.recheck = "true"], calls)
              ELSE RenewReturn("page_load_failed", [c EXCEPT !.recheck = "false"], calls)

\* is_server_page_loaded returned b to renew_server: at line 594 for the
\* original page, at line 653 for the page after the renewal request.
PageVerdict(b, c) ==
    IF c.classified = "none"
    THEN IF b THEN /\ cur' = [c EXCEPT !.loaded = "true"]
                   /\ depth' = 0
                   /\ pc' = "renew"
                   /\ UNCHANGED <<idx, results, calls, original_info>>
              ELSE RenewReturn("page_load_failed", [c EXCEPT !.loaded = "false"], calls)
    ELSE IF b THEN RenewReturn("unknown", [c EXCEPT !.recheck = "true"], calls)
              ELSE RenewReturn("page_load_failed", [c EXCEPT !.recheck = "false"], calls)

Helper(c, raised) == IF raised THEN [c EXCEPT !.exc = c.exc \cup {"helper"}] ELSE c

\* One level of is_server_page_loaded with handle_accounts_redirect_from_server.
\* pg: the page found; raises, hraises: page.content() raised in the one, in
\* the other; sel: what select_current_account_in_quick_login returned;
\* graises: page.go_back() raised.
ServerPageCheck ==
    /\ pc = "check_page"
    /\ \E pg \in Pages, raises \in BOOLEAN :
       LET v == ServerPageVerdict(pg, raises) IN
       IF v /= "accounts"
       THEN PageVerdict(v = "true", Helper(cur, raises))
       ELSE \E hraises \in BOOLEAN :
            IF hraises
            THEN PageVerdict(FALSE, Helper(cur, TRUE))
            ELSE IF QuickLoginFor(pg, email)
            THEN \E sel \in BOOLEAN : PageVerdict(sel, cur)
            ELSE \E run \in PerformLoginRuns :
                 LET c == Helper(cur, run.exc /= {})
                 IN  IF ~run.result
                     THEN PageVerdict(FALSE, c)
                     ELSE \E graises \in BOOLEAN :
                            IF graises
                            THEN PageVerdict(FALSE, Helper(c, TRUE))
                            ELSE /\ depth < MaxDepth
                                 /\ depth' = depth + 1
                                 /\ cur' = c
                                 /\ UNCHANGED <<pc, idx, results, calls, original_info>>
    /\ UNCHANGED <<Config, BrowserVars, LoginVars, MainVars, RunResult>>

\* original_content = page.content(); original_info = extract_renewal_info(...);
\* page.goto(renew_url, wait_until="networkidle")
RenewVisit ==
    /\ pc = "renew"
    /\ \E craises \in BOOLEAN :
          IF craises
          THEN RenewReturn("error", [cur EXCEPT !.exc = @ \cup {"own"}], calls)
          ELSE \E pg \in Pages, graises \in BOOLEAN :
               LET c == [cur EXCEPT !.renew_url = RenewUrl(server_list[idx]),
                                    !.original = ExtractRenewalInfo(pg)]
               IN  IF graises
                   THEN RenewReturn("error", [c EXCEPT !.exc = @ \cup {"own"}], calls)
                   ELSE /\ original_info' = ExtractRenewalInfo(pg)
                        /\ cur' = c
                        /\ pc' = "classify"
                        /\ UNCHANGED <<idx, results, calls, depth>>
    /\ UNCHANGED <<Config, BrowserVars, LoginVars, MainVars, RunResult>>

\* renewed_content = page.content(); renewed_info = extract_renewal_info(...);
\* the if / elif / else of lines 632-658
RenewClassify ==
    /\ pc = "classify"
    /\ \E raises \in BOOLEAN :
          IF raises
          THEN RenewReturn("error", [cur EXCEPT !.exc = @ \cup {"own"}], calls)
          ELSE \E pg \in Pages :
               LET k == Classify(pg, original_info, ExtractRenewalInfo(pg))
                   c == [cur EXCEPT !.renewed = pg, !.classified = k]
               IN  IF k = "check_page"
                   THEN /\ cur' = c
                        /\ pc' = "check_page"
                        /\ UNCHANGED <<idx, results, calls, original_info, depth>>
                   ELSE RenewReturn(k, c, calls)
    /\ UNCHANGED <<Config, BrowserVars, LoginVars, MainVars, RunResult>>

\* ---------------------------------------------------------------- run(), end
\* the for loop is exhausted
LoopDone ==
    /\ pc = "loop"
    /\ login_success = "true"
    /\ idx > Len(server_list)
    /\ cur' = NoCall
    /\ pc' = "close"
    /\ UNCHANGED <<Config, BrowserVars, LoginVars, idx, results, calls, original_info,
                   depth, MainVars, RunResult>>

\* Faulty variant of the else branch: a single "login_failed" is stored.
LoginFailedOneResult ==
    /\ pc = "loop"
    /\ login_success = "false"
    /\ results' = <<LoginFailed>>
    /\ pc' = "close"
    /\ step' = NoStep
    /\ own_exc' = {}
    /\ UNCHANGED <<Config, BrowserVars, login_success, idx, calls, original_info, depth,
                   cur, MainVars, RunResult>>

\* else: results = ["login_failed"] * len(self.server_list)
LoginFailedResults ==
    /\ pc = "loop"
    /\ login_success = "false"
    /\ results' = Repeat(LoginFailed, Len(server_list))
    /\ pc' = "close"
    /\ step' = NoStep
    /\ own_exc' = {}
    /\ UNCHANGED <<Config, BrowserVars, login_success, idx, calls, original_info, depth,
                   cur, MainVars, RunResult>>

\* browser.close(); return results -- or the except clause of run()
RunClose ==
    /\ pc = "close"
    /\ \E raises \in BOOLEAN :
          IF raises
          THEN /\ RuntimeError
               /\ UNCHANGED browser_open
          ELSE /\ browser_open' = FALSE
               /\ returned' = results
               /\ pc' = "returned"
               /\ UNCHANGED raised_in_run
    /\ UNCHANGED <<Config, browsers, LoginVars, RenewVars, MainVars>>

Next ==
    \/ MainNoAuth \/ MainNoServers \/ MainCallRun \/ MainWrite \/ MainExit
    \/ RunNoAuth \/ RunNoServers \/ RunLaunch
    \/ LoginGoto \/ LoginCheck \/ LoginButton \/ LoginCloudflare
    \/ LoginPerform \/ LoginNavigate
    \/ RenewStart \/ ServerPageCheck \/ RenewVisit \/ RenewClassify
    \/ LoopDone \/ LoginFailedResults \/ RunClose

Spec == Init /\ [][Next]_vars

\* ================================================================ properties
ConfigOK == HasEmailAuth(email, password) /\ server_list /= <<>>

N == Len(server_list)

\* run() was called and has returned
RunHasReturned == pc \in {"returned", "written"} \/ (pc = "exited" /\ run_calls = 1)

\* a renew_server call has just returned; cur is its record
CallReturned == pc = "loop" /\ cur.status /= "none"

LastResult == results[Len(results)]

EndsWith(s, t) == Len(s) >= 1 /\ s[Len(s)] = t

RenewStatuses == {"success", "already_renewed", "error", "unknown", "page_load_failed"}

\* ---------------------------------------------------------------- C1
\* C1 as stated: when login has succeeded, every renew_server call that has
\* returned opened the server's page and then triggered the renewal (the model
\* has one way to trigger it, the request of the renewal URL).
C1_EveryServerRenewed ==
    (CallReturned /\ login_success = "true")
        => (cur.opened = server_list[cur.server] /\ cur.renew_url /= <<>>)

\* C1 amended: when login has succeeded renew_server is called once for every
\* configured server and first requests that server's URL; the renewal is
\* triggered by requesting that URL with renew=true appended ("&" when the
\* URL has a "?", else "?"), and only after the server page was recognised as
\* loaded; a call that found the page loaded and raised nothing of its own
\* did request it.
C1_OpenThenRequestRenewal ==
    /\ cur.server /= 0 => (login_success = "true" /\ cur.opened = server_list[cur.server])
    /\ (pc = "close" /\ login_success = "true")
          => \A i \in 1..N : \E k \in 1..Len(calls) : calls[k] = <<"call", i>>
    /\ cur.renew_url /= <<>>
          => /\ cur.loaded = "true"
             /\ cur.renew_url = cur.opened \o
                   <<(IF \E k \in 1..Len(cur.opened) : cur.opened[k] = "?" THEN "&" ELSE "?"),
                     "renew=true">>
    /\ (CallReturned /\ cur.loaded = "true" /\ "own" \notin cur.exc) => cur.renew_url /= <<>>

C1_Witness ==
    /\ CallReturned
    /\ cur.server = 2
    /\ cur.status = "success"
    /\ cur.renew_url = UrlA \o <<"&", "renew=true">>

\* ---------------------------------------------------------------- C2
\* C2 as stated: no server URL is requested unless login returned True, and
\* when login returned False run() returns "login_failed" for every server.
C2_LoginFailedReturned ==
    /\ cur.server /= 0 => login_success = "true"
    /\ (RunHasReturned /\ login_success = "false")
          => (calls = <<>> /\ returned = Repeat(LoginFailed, N))

\* C2 amended: no server URL is requested unless login returned True; when
\* login returned False no renew_server call is made and run() sets every
\* server's result to "login_failed", which it returns unless browser.close()
\* then raises: in that case it returns "error: runtime" for every server.
C2_LoginPrecedesRenewal ==
    /\ (cur.server /= 0 \/ calls /= <<>>) => login_success = "true"
    /\ login_success = "false"
          => /\ calls = <<>> /\ cur = NoCall
             /\ pc = "close" => results = Repeat(LoginFailed, N)
             /\ RunHasReturned
                   => returned = IF raised_in_run THEN Repeat(ErrRuntime, N)
                                                  ELSE Repeat(LoginFailed, N)

C2_Witness ==
    /\ pc = "returned"
    /\ login_success = "false"
    /\ N = 2
    /\ returned = <<LoginFailed, LoginFailed>>

\* ---------------------------------------------------------------- C3
\* C3: at most one browser is launched; renew_server calls and returns
\* alternate, for servers 1, 2, ... in order; and a run that logged in and
\* met no runtime exception returns one result per server, the i-th made of
\* the i-th server's id.
C3_Sequential ==
    /\ browsers <= 1
    /\ \A k \in 1..Len(calls) :
          calls[k] = IF k % 2 = 1 THEN <<"call", (k + 1) \div 2>> ELSE <<"ret", k \div 2>>
    /\ Len(calls) <= 2 * N
    /\ Len(results) = IF login_success = "true" THEN Len(calls) \div 2
                      ELSE IF pc = "loop" THEN 0 ELSE Len(results)
    /\ (RunHasReturned /\ login_success = "true" /\ ~raised_in_run)
          => /\ Len(returned) = N
             /\ Len(calls) = 2 * N
             /\ \A i \in 1..N :
                   \E st \in RenewStatuses :
                      returned[i] = ServerId(server_list[i]) \o <<":", " ", st>>

C3_Witness ==
    /\ pc = "returned"
    /\ login_success = "true"
    /\ ~raised_in_run
    /\ server_list = <<UrlNoId, UrlA>>
    /\ returned = <<<<"unknown", ":", " ", "page_load_failed">>, <<"a", ":", " ", "success">>>>

\* ---------------------------------------------------------------- C4
\* C4: run() answers missing credentials with ["error: no_auth"] (also when
\* the server list is empty too) and a missing server list with
\* ["error: no_servers"], launching no browser; main() then exits with
\* status 1 without calling run() or writing README.md.
C4_MissingConfig ==
    /\ (RunHasReturned /\ ~(email /= "" /\ password /= ""))
          => (returned = <<ErrNoAuth>> /\ browsers = 0)
    /\ (RunHasReturned /\ email /= "" /\ password /= "" /\ server_list = <<>>)
          => (returned = <<ErrNoServers>> /\ browsers = 0)
    /\ (entry = "main" /\ (email = "" \/ password = "" \/ server_list = <<>>))
          => /\ pc \in {"main", "exited"}
             /\ run_calls = 0 /\ write_calls = 0 /\ readme = NoFile /\ browsers = 0
             /\ pc = "exited" => exit_status = 1

C4_Witness ==
    /\ entry = "run"
    /\ pc = "returned"
    /\ email = "" /\ server_list = <<>>
    /\ returned = <<ErrNoAuth>>

\* ---------------------------------------------------------------- C5
\* C5 as stated: with credentials and servers configured, main() has called
\* write_readme_file once by the time it exits and README.md has one result
\* line per result of run().
C5_OneLinePerResult ==
    (entry = "main" /\ ConfigOK /\ pc = "exited")
        => (write_calls = 1 /\ Len(readme.lines) = Len(returned))

\* C5 amended: main() calls write_readme_file exactly once, after run() has
\* returned and before it exits, whatever run() returned; when the write does
\* not raise README.md gets one result line per result, in order; when it
\* raises the exception is caught and README.md gets no result line.
C5_StatusFileWritten ==
    (entry = "main" /\ ConfigOK)
        => /\ write_calls = IF pc \in {"written", "exited"} THEN 1 ELSE 0
           /\ pc \in {"written", "exited"}
                 => /\ run_calls = 1 /\ Len(returned) = N
                    /\ write_error = "none"
                          => /\ readme.header /= <<>>
                             /\ Len(readme.lines) = Len(returned)
                             /\ \A k \in 1..Len(returned) :
                                   /\ readme.lines[k].msg[2] = returned[k][Len(returned[k])]
                                   /\ readme.lines[k].server \o <<":">>
                                        = SubSeq(returned[k], 1, Len(readme.lines[k].server) + 1)
                                      \/ returned[k] = LoginFailed
                    /\ write_error /= "none" => readme = NoFile

C5_Witness ==
    /\ entry = "main"
    /\ pc = "exited"
    /\ write_error = "none"
    /\ Len(readme.lines) = 2
    /\ returned = <<<<"a", ":", " ", "success">>, <<"unknown", ":", " ", "unknown">>>>

\* ---------------------------------------------------------------- C6
\* C6 as stated: an exception inside renew_server yields "<id>: error", an
\* exception inside a login step makes the step return False, and an
\* exception in run() outside those guards yields "error: runtime" for
\* every server.
C6_AnyExceptionFails ==
    /\ (CallReturned /\ cur.exc /= {}) => cur.status = "error"
    /\ step.exc /= {} => ~step.result
    /\ own_exc /= {} => login_success /= "true"
    /\ raised_in_run => (Len(returned) = N /\ \A k \in 1..N : returned[k] = ErrRuntime)

\* C6 amended: no exception escapes run().  An exception that reaches
\* renew_server's own handler yields "<id>: error" for that server; one raised
\* inside is_server_page_loaded or its helpers is caught there and the call
\* still returns a status; either way the remaining servers are processed.
\* An exception that reaches a login step's own handler makes the step return
\* False (one raised by a selector probe is skipped over).  An exception in
\* run() outside those guards yields "error: runtime" for every server, and
\* without one run() returns its results list.
C6_GuardedSteps ==
    /\ CallReturned
          => /\ cur.status \in RenewStatuses
             /\ LastResult = ServerId(server_list[cur.server]) \o <<":", " ", cur.status>>
             /\ "own" \in cur.exc => cur.status = "error"
    /\ (pc = "close" /\ login_success = "true") => Len(results) = N
    /\ "outer" \in step.exc => ~step.result
    /\ "outer" \in own_exc => login_success = "false"
    /\ raised_in_run
          => /\ RunHasReturned
             /\ Len(returned) = N /\ \A k \in 1..N : returned[k] = ErrRuntime
    /\ (RunHasReturned /\ ConfigOK /\ ~raised_in_run) => returned = results

C6_Witness ==
    /\ CallReturned
    /\ N = 2
    /\ cur.server = 2
    /\ cur.exc = {"own"}
    /\ results = <<<<"a", ":", " ", "page_load_failed">>, <<"unknown", ":", " ", "error">>>>

\* ---------------------------------------------------------------- C7
\* C7: with credentials and servers configured, the list run() returns has
\* one entry per configured server on every path.
C7_OneEntryPerServer ==
    (ConfigOK /\ RunHasReturned) => Len(returned) = N

C7_Witness ==
    /\ pc = "returned"
    /\ raised_in_run
    /\ login_success = "true"
    /\ Len(results) = 2
    /\ Len(returned) = 2

\* ---------------------------------------------------------------- C8
\* The id of the k-th configured server.
IdOf(k) == ServerId(server_list[k])

\* every result is "<id>: error" or "<id>: page_load_failed"
AllFailedSoftly ==
    \A k \in 1..Len(returned) :
       \E st \in {"error", "page_load_failed"} :
          Len(returned) = N /\ returned[k] = IdOf(k) \o <<":", " ", st>>

HasErrorColon(s) == \E j \in 1..(Len(s) - 1) : s[j] = "error" /\ s[j + 1] = ":"

HasLoginFailed(s) == \E j \in 1..Len(s) : s[j] = "login_failed"

\* C8 as stated: exit status 1 exactly when some result contains
\* "login_failed" or "error:"; in particular status 0 when every server
\* ended as "<id>: error" or "<id>: page_load_failed" and no id contains
\* "error:".
C8_SoftFailuresExitZero ==
    (pc = "exited" /\ run_calls = 1)
        => /\ exit_status = 1 <=> \E k \in 1..Len(returned) :
                                     HasLoginFailed(returned[k]) \/ HasErrorColon(returned[k])
           /\ (AllFailedSoftly /\ \A k \in 1..N : ~HasErrorColon(IdOf(k))) => exit_status = 0

\* C8 amended: exit status 1 exactly when some result contains "login_failed"
\* or "error:", else 0; in particular 0 when every server ended as
\* "<id>: error" or "<id>: page_load_failed" and no id ends in "error" (the
\* result would read "...error: ...") or contains "error:" or "login_failed".
C8_ExitStatus ==
    (pc = "exited" /\ run_calls = 1)
        => /\ exit_status \in {0, 1}
           /\ exit_status = 1 <=> \E k \in 1..Len(returned) :
                                     HasLoginFailed(returned[k]) \/ HasErrorColon(returned[k])
           /\ (AllFailedSoftly /\ \A k \in 1..N : /\ ~HasErrorColon(IdOf(k))
                                                  /\ ~HasLoginFailed(IdOf(k))
                                                  /\ ~EndsWith(IdOf(k), "error"))
                 => exit_status = 0
           /\ (raised_in_run \/ login_success = "false") => exit_status = 1

C8_Witness ==
    /\ pc = "exited"
    /\ exit_status = 0
    /\ returned = <<<<"a", ":", " ", "error">>, <<"unknown", ":", " ", "page_load_failed">>>>

\* ---------------------------------------------------------------- C9
\* The status C9 assigns to the page read after the renewal request.
ClaimedStatus(c) ==
    IF HasAny(c.renewed, {"server has been renewed successfully", "renewed successfully"})
    THEN "success"
    ELSE IF HasAny(c.renewed, {"already renewed", "no need to renew"})
    THEN "already_renewed"
    ELSE IF FirstDate(c.renewed) /= None
            /\ FirstDate(c.renewed) /= Get(c.original, "renewal_date")
    THEN "success"
    ELSE IF Has(c.renewed, "error") \/ Has(c.renewed, "failed")
    THEN "error"
    ELSE IF c.recheck = "true" THEN "unknown" ELSE "page_load_failed"

\* C9: renew_server returns "<id>: <status>" with one of the five statuses,
\* and once it has read the page after the renewal request the status follows
\* the precedence success message, already-renewed message, changed renewal
\* date, error words, page still loaded.
C9_Precedence ==
    CallReturned
        => /\ cur.status \in RenewStatuses
           /\ LastResult = ServerId(server_list[cur.server]) \o <<":", " ", cur.status>>
           /\ cur.classified /= "none" => cur.status = ClaimedStatus(cur)

\* ---------------------------------------------------------------- C10
\* C10: the renewal URL is requested only after the server's own page was
\* requested and recognised as loaded; a call whose page was not recognised
\* returns "<id>: page_load_failed" without requesting the renewal URL.
C10_RenewOnlyIfLoaded ==
    /\ cur.renew_url /= <<>> => (cur.opened /= <<>> /\ cur.loaded = "true")
    /\ cur.loaded /= "none" => cur.opened = server_list[cur.server]
    /\ cur.loaded = "false"
          => /\ CallReturned
             /\ cur.renew_url = <<>>
             /\ cur.status = "page_load_failed"
             /\ LastResult = ServerId(server_list[cur.server]) \o <<":", " ", "page_load_failed">>

C10_Witness ==
    /\ CallReturned
    /\ cur.loaded = "false"
    /\ cur.renew_url = <<>>
    /\ LastResult = <<"a", ":", " ", "page_load_failed">>

====
